---- MODULE Spec2Model ----
(***************************************************************************)
(* fundamentus-scraper (src/index.js): the table discovery, extraction and *)
(* normalization pipeline and the run that drives it.                      *)
(*                                                                         *)
(* Strings are sequences of one-character strings, so that the regular     *)
(* expressions of the parser and the normalizer are computed character by  *)
(* character, as the JavaScript engine computes them.                      *)
(***************************************************************************)
EXTENDS Integers, Sequences, FiniteSets, TLC

VARIABLES
    \* --- Markup Normalizer harness (SpecNorm)
    nphase,        \* "input" | "done"
    inner,         \* the cell's inner markup (cell[2] || '')
    normOut,       \* the normalized string
    \* --- Table Parser harness (SpecParse)
    pphase,        \* "build" | "parsed"
    tbl,           \* the table as a structure: rows of cells
    tableHtmlP,    \* the markup given to parseTableHtmlToArray
    rowsP,         \* what parseTableHtmlToArray returned
    \* --- Table Selector harness (SpecSelect)
    sphase,        \* "input" | "done"
    tables,        \* the candidate list handed to the $$eval callback
    selOut,        \* what the callback returned
    \* --- one run of the program (Spec)
    pc,            \* the position of the main async function
    browser,       \* "none" | "open" | "closed"
    closeCalls,    \* number of browser.close() calls made
    labelIdx,      \* index into buttonTexts of the label being tried
    tried,         \* labels for which page.$ was called, in order
    located,       \* labels whose control was found (btn truthy)
    clicked,       \* labels whose click() resolved
    clickAttempts, \* number of click() calls
    timedOut,      \* the bounded waits that timed out
    failure,       \* the step whose rejection reached the outer catch, or "none"
    candidates,    \* the page's tables at selection time
    selected,      \* whether the $$eval callback has returned
    tableHtml,     \* the selector's result
    tableArray,    \* the parser's result
    parsed,        \* whether parseTableHtmlToArray was called
    tabFound,      \* whether the sheet tab existed
    published,     \* the values of every values.update call, in order
    exitCode       \* the code given to process.exit (when pc = "exited")

normVars   == <<nphase, inner, normOut>>
parseVars  == <<pphase, tbl, tableHtmlP, rowsP>>
selectVars == <<sphase, tables, selOut>>
runVars    == <<pc, browser, closeCalls, labelIdx, tried, located, clicked,
                clickAttempts, timedOut, failure, candidates, selected,
                tableHtml, tableArray, parsed, tabFound, published, exitCode>>
vars       == <<normVars, parseVars, selectVars, runVars>>

(***************************************************************************)
(* Bounds of the model.                                                    *)
(***************************************************************************)
MaxInnerLen == 5     \* longest cell inner markup of SpecNorm
MaxRows == 2         \* most rows of a table of SpecParse
MaxCells == 3        \* most cells of a table of SpecParse (all rows together)
MaxTables == 3       \* most candidate tables of SpecSelect

(***************************************************************************)
(* Characters and strings.                                                 *)
(***************************************************************************)
\* JavaScript's \s and trim(): the white space characters of the alphabet.
IsSpace(c) == c \in {" ", "\n"}

\* String.prototype.toLowerCase and the i flag, on the letters that occur.
ToLower(c) ==
    CASE c = "A" -> "a"
      [] c = "B" -> "b"
      [] c = "D" -> "d"
      [] c = "E" -> "e"
      [] c = "F" -> "f"
      [] c = "H" -> "h"
      [] c = "L" -> "l"
      [] c = "P" -> "p"
      [] c = "R" -> "r"
      [] c = "T" -> "t"
      [] OTHER -> c

toLowerCase(s) == [k \in 1..Len(s) |-> ToLower(s[k])]

MinOf(S) == CHOOSE x \in S : \A y \in S : x <= y

\* The literal lit (lower case) matches s at position i, ignoring case.
MatchAtCI(s, i, lit) ==
    /\ i >= 1
    /\ i + Len(lit) - 1 <= Len(s)
    /\ \A k \in 1..Len(lit) : ToLower(s[i + k - 1]) = lit[k]

\* The first position >= from where lit matches ignoring case, or 0.
IndexOfCI(s, lit, from) ==
    LET hits == {j \in from..Len(s) : MatchAtCI(s, j, lit)}
    IN  IF hits = {} THEN 0 ELSE MinOf(hits)

\* The first position >= from holding the character c, or 0.
IndexOfChar(s, c, from) ==
    LET hits == {j \in from..Len(s) : s[j] = c}
    IN  IF hits = {} THEN 0 ELSE MinOf(hits)

\* String.prototype.includes(lit), case sensitive.
includes(s, lit) ==
    \E j \in 1..Len(s) :
        /\ j + Len(lit) - 1 <= Len(s)
        /\ \A k \in 1..Len(lit) : s[j + k - 1] = lit[k]

(***************************************************************************)
(* Markup Normalizer: src/index.js line 70                                 *)
(*   inner.replace(/<[^>]*>/g, ' ').replace(/\s+/g, ' ').trim()            *)
(***************************************************************************)
\* A mutated tag replacement: the tag is deleted and nothing is put in its place.
RECURSIVE ReplaceTagsNoSpace(_, _)
ReplaceTagsNoSpace(s, i) ==
    IF i > Len(s) THEN <<>>
    ELSE IF s[i] = "<" /\ IndexOfChar(s, ">", i + 1) # 0
         THEN ReplaceTagsNoSpace(s, IndexOfChar(s, ">", i + 1) + 1)
         ELSE <<s[i]>> \o ReplaceTagsNoSpace(s, i + 1)

\* replace(/<[^>]*>/g, ' ') from position i on: a '<' with a later '>' is a
\* match up to the first such '>' and becomes one space; any other character
\* is copied.
RECURSIVE ReplaceTagsFrom(_, _)
ReplaceTagsFrom(s, i) ==
    IF i > Len(s) THEN <<>>
    ELSE IF s[i] = "<" /\ IndexOfChar(s, ">", i + 1) # 0
         THEN <<" ">> \o ReplaceTagsFrom(s, IndexOfChar(s, ">", i + 1) + 1)
         ELSE <<s[i]>> \o ReplaceTagsFrom(s, i + 1)

ReplaceTags(s) == ReplaceTagsFrom(s, 1)

\* replace(/\s+/g, ' '): every maximal run of white space becomes one space.
RECURSIVE CollapseFrom(_, _)
CollapseFrom(s, i) ==
    IF i > Len(s) THEN <<>>
    ELSE IF IsSpace(s[i])
         THEN LET rest == {j \in i..Len(s) : ~IsSpace(s[j])}
              IN  <<" ">> \o (IF rest = {} THEN <<>> ELSE CollapseFrom(s, MinOf(rest)))
         ELSE <<s[i]>> \o CollapseFrom(s, i + 1)

CollapseSpaces(s) == CollapseFrom(s, 1)

\* trim(): white space removed from both ends.
trim(s) ==
    LET keep == {j \in 1..Len(s) : ~IsSpace(s[j])}
    IN  IF keep = {} THEN <<>>
        ELSE SubSeq(s, MinOf(keep), CHOOSE x \in keep : \A y \in keep : y <= x)

Normalize(s) == trim(CollapseSpaces(ReplaceTags(s)))

(***************************************************************************)
(* Table Parser: src/index.js lines 57-76                                  *)
(***************************************************************************)
NullHtml == [kind |-> "null", html |-> <<>>]
Html(h)  == [kind |-> "html", html |-> h]

TR_OPEN  == <<"<", "t", "r">>
TR_CLOSE == <<"<", "/", "t", "r", ">">>

\* trRe.exec from lastIndex `from`: /<tr[\s\S]*?<\/tr>/gi. The leftmost "<tr"
\* that has a "</tr>" after it, up to the first such "</tr>".
TrExec(s, from) ==
    LET starts == {i \in from..Len(s) :
                      /\ MatchAtCI(s, i, TR_OPEN)
                      /\ IndexOfCI(s, TR_CLOSE, i + 3) # 0}
    IN  IF starts = {} THEN [found |-> FALSE, text |-> <<>>, next |-> 0]
        ELSE LET i == MinOf(starts)
                 j == IndexOfCI(s, TR_CLOSE, i + 3)
             IN  [found |-> TRUE, text |-> SubSeq(s, i, j + 4), next |-> j + 5]

\* The closing tag </\1> for the captured name (matched ignoring case).
CloseTag(name) == <<"<", "/">> \o toLowerCase(name) \o <<">">>

\* Whether /<(td|th)[^>]*>([\s\S]*?)<\/\1>/i matches starting at position i.
CellStartsAt(s, i) ==
    /\ (MatchAtCI(s, i, <<"<", "t", "d">>) \/ MatchAtCI(s, i, <<"<", "t", "h">>))
    /\ IndexOfChar(s, ">", i + 3) # 0
    /\ IndexOfCI(s, CloseTag(SubSeq(s, i + 1, i + 2)),
                 IndexOfChar(s, ">", i + 3) + 1) # 0

\* cellRe.exec from lastIndex `from`: the leftmost match; inner is group 2.
CellExec(s, from) ==
    LET starts == {i \in from..Len(s) : CellStartsAt(s, i)}
    IN  IF starts = {} THEN [found |-> FALSE, inner |-> <<>>, next |-> 0]
        ELSE LET i  == MinOf(starts)
                 gt == IndexOfChar(s, ">", i + 3)
                 cl == IndexOfCI(s, CloseTag(SubSeq(s, i + 1, i + 2)), gt + 1)
             IN  [found |-> TRUE, inner |-> SubSeq(s, gt + 1, cl - 1), next |-> cl + 5]

\* A mutated inner loop: a cell is pushed only when its text is not empty.
RECURSIVE CellsSkippingEmpty(_, _)
CellsSkippingEmpty(trHtml, from) ==
    LET m == CellExec(trHtml, from)
    IN  IF ~m.found THEN <<>>
        ELSE (IF Normalize(m.inner) = <<>> THEN <<>> ELSE <<Normalize(m.inner)>>)
             \o CellsSkippingEmpty(trHtml, m.next)

\* The inner while loop (lines 64-72): the cells of one row segment.
RECURSIVE CellsFrom(_, _)
CellsFrom(trHtml, from) ==
    LET m == CellExec(trHtml, from)
    IN  IF ~m.found THEN <<>>
        ELSE <<Normalize(m.inner)>> \o CellsFrom(trHtml, m.next)

\* The outer while loop (lines 62-74): a row is pushed when it has a cell.
RECURSIVE RowsFrom(_, _)
RowsFrom(s, from) ==
    LET tr == TrExec(s, from)
    IN  IF ~tr.found THEN <<>>
        ELSE LET cells == CellsFrom(tr.text, 1)
             IN  (IF Len(cells) > 0 THEN <<cells>> ELSE <<>>) \o RowsFrom(s, tr.next)

\* parseTableHtmlToArray(tableHtml): null and '' are falsy (line 58).
parseTableHtmlToArray(h) ==
    IF h.kind = "null" \/ h.html = <<>> THEN <<>> ELSE RowsFrom(h.html, 1)

(***************************************************************************)
(* Well-formed table markup, for the parser's harness: a table is a        *)
(* sequence of rows, a row a sequence of cells drawn from CellPool. Each    *)
(* cell carries the text a reader of the page sees in it.                  *)
(***************************************************************************)
CellPool ==
    { \* <td>a</td>
      [open |-> <<"<", "t", "d", ">">>, content |-> <<"a">>, text |-> <<"a">>,
       close |-> <<"<", "/", "t", "d", ">">>],
      \* <th></th>
      [open |-> <<"<", "t", "h", ">">>, content |-> <<>>, text |-> <<>>,
       close |-> <<"<", "/", "t", "h", ">">>],
      \* <TD x> a<b>B</b>\n</td>
      [open |-> <<"<", "T", "D", " ", "x", ">">>,
       content |-> <<" ", "a", "<", "b", ">", "B", "<", "/", "b", ">", "\n">>,
       text |-> <<"a", " ", "B">>,
       close |-> <<"<", "/", "t", "d", ">">>],
      \* <th><br></th>
      [open |-> <<"<", "t", "h", ">">>, content |-> <<"<", "b", "r", ">">>,
       text |-> <<>>,
       close |-> <<"<", "/", "t", "h", ">">>] }

RECURSIVE Concat(_)
Concat(ss) == IF ss = <<>> THEN <<>> ELSE Head(ss) \o Concat(Tail(ss))

RenderCell(c) == c.open \o c.content \o c.close

RenderRow(r, pretty) ==
    TR_OPEN \o <<">">> \o Concat([k \in 1..Len(r) |-> RenderCell(r[k])])
            \o TR_CLOSE \o (IF pretty THEN <<"\n">> ELSE <<>>)

\* The outer markup of the table; `pretty` adds a tbody and line breaks.
RenderTable(t, pretty) ==
    <<"<", "t", "a", "b", "l", "e", ">">>
    \o (IF pretty THEN <<"<", "t", "b", "o", "d", "y", ">", "\n">> ELSE <<>>)
    \o Concat([k \in 1..Len(t) |-> RenderRow(t[k], pretty)])
    \o (IF pretty THEN <<"<", "/", "t", "b", "o", "d", "y", ">">> ELSE <<>>)
    \o <<"<", "/", "t", "a", "b", "l", "e", ">">>

RECURSIVE CellCount(_)
CellCount(t) == IF t = <<>> THEN 0 ELSE Len(Head(t)) + CellCount(Tail(t))

(***************************************************************************)
(* Table Selector: the $$eval callback, src/index.js lines 41-52           *)
(***************************************************************************)
PAPEL == <<"p", "a", "p", "e", "l">>

\* The condition of line 44 for one table: reading innerText may throw; an
\* empty innerText is falsy.
InspectText(t) ==
    IF ~t.readable THEN "throws"
    ELSE IF t.innerText # <<>> /\ includes(toLowerCase(t.innerText), PAPEL)
         THEN "match"
         ELSE "nomatch"

\* A mutated loop: the text is compared without toLowerCase().
RECURSIVE SelectCaseSensitive(_, _)
SelectCaseSensitive(ts, i) ==
    IF i > Len(ts)
    THEN IF Len(ts) > 0 THEN Html(ts[1].outerHTML) ELSE NullHtml
    ELSE IF ts[i].readable /\ includes(ts[i].innerText, PAPEL)
         THEN Html(ts[i].outerHTML)
         ELSE SelectCaseSensitive(ts, i + 1)

\* The for loop from table i on, then the fallback (lines 42-51). An exception
\* of the condition is caught inside the loop body (line 47) and the loop
\* goes on.
RECURSIVE SelectFrom(_, _)
SelectFrom(ts, i) ==
    IF i > Len(ts)
    THEN IF Len(ts) > 0 THEN Html(ts[1].outerHTML) ELSE NullHtml
    ELSE IF InspectText(ts[i]) = "match"
         THEN Html(ts[i].outerHTML)
         ELSE SelectFrom(ts, i + 1)

TableSelector(ts) == SelectFrom(ts, 1)

(***************************************************************************)
(* Tables and pages the harnesses and the run draw from.                   *)
(***************************************************************************)
CellA  == CHOOSE c \in CellPool : c.content = <<"a">>
CellAB == CHOOSE c \in CellPool : c.text = <<"a", " ", "B">>
CellE  == CHOOSE c \in CellPool : c.content = <<>>

HtmlOneRow  == RenderTable(<< <<CellA>> >>, FALSE)
HtmlTwoRows == RenderTable(<< <<CellAB, CellE>>, <<CellA>> >>, TRUE)
HtmlNoCells == RenderTable(<< <<>> >>, FALSE)

TextPool ==
    { [readable |-> TRUE,  innerText |-> <<"P", "a", "p", "e", "l", " ", "a">>],
      [readable |-> TRUE,  innerText |-> <<"a", "p", "a", "p", "e", "l">>],
      [readable |-> TRUE,  innerText |-> <<"F", "o", "o", " ", "p", "a", "p", "e">>],
      [readable |-> TRUE,  innerText |-> <<>>],
      [readable |-> FALSE, innerText |-> <<>>] }

Table(t, h) == [readable |-> t.readable, innerText |-> t.innerText, outerHTML |-> h]

CandidatePool == {Table(t, h) : t \in TextPool, h \in {HtmlOneRow, HtmlTwoRows}}

SeqsUpTo(S, n) == UNION {[1..k -> S] : k \in 0..n}

(***************************************************************************)
(* Harness of the Markup Normalizer (SpecNorm): every inner markup over    *)
(* InnerChars up to MaxInnerLen characters, normalized as line 70 does.    *)
(***************************************************************************)
InnerChars == {"<", ">", " ", "\n", "a"}

NormIdle   == nphase = "idle" /\ inner = <<>> /\ normOut = <<>>
ParseIdle  == pphase = "idle" /\ tbl = <<>> /\ tableHtmlP = NullHtml /\ rowsP = <<>>
SelectIdle == sphase = "idle" /\ tables = <<>> /\ selOut = NullHtml

NormalizeCell ==
    /\ nphase = "input"
    /\ normOut' = Normalize(inner)
    /\ nphase' = "done"
    /\ UNCHANGED <<inner, parseVars, selectVars, runVars>>

(***************************************************************************)
(* Harness of the Table Parser (SpecParse): a well-formed table is built   *)
(* row by row and cell by cell, rendered and parsed.                       *)
(***************************************************************************)
AddRow ==
    /\ pphase = "build"
    /\ Len(tbl) < MaxRows
    /\ tbl' = Append(tbl, <<>>)
    /\ UNCHANGED <<pphase, tableHtmlP, rowsP, normVars, selectVars, runVars>>

AddCell ==
    /\ pphase = "build"
    /\ Len(tbl) > 0
    /\ CellCount(tbl) < MaxCells
    /\ \E c \in CellPool :
          tbl' = [tbl EXCEPT ![Len(tbl)] = Append(@, c)]
    /\ UNCHANGED <<pphase, tableHtmlP, rowsP, normVars, selectVars, runVars>>

ParseTable ==
    /\ pphase = "build"
    /\ \E pretty \in BOOLEAN :
          /\ tableHtmlP' = Html(RenderTable(tbl, pretty))
          /\ rowsP' = parseTableHtmlToArray(Html(RenderTable(tbl, pretty)))
    /\ pphase' = "parsed"
    /\ UNCHANGED <<tbl, normVars, selectVars, runVars>>

\* The parser called with null or with the empty string.
ParseNothing ==
    /\ pphase = "build"
    /\ tbl = <<>>
    /\ \E h \in {NullHtml, Html(<<>>)} :
          /\ tableHtmlP' = h
          /\ rowsP' = parseTableHtmlToArray(h)
    /\ pphase' = "nothing"
    /\ UNCHANGED <<tbl, normVars, selectVars, runVars>>

(***************************************************************************)
(* Harness of the Table Selector (SpecSelect).                             *)
(***************************************************************************)
SelectTable ==
    /\ sphase = "input"
    /\ selOut' = TableSelector(tables)
    /\ sphase' = "done"
    /\ UNCHANGED <<tables, normVars, parseVars, runVars>>

(***************************************************************************)
(* One run of the program (Spec): src/index.js lines 20-27 and 109-167.    *)
(* Every awaited call of a collaborator either resolves or rejects; the    *)
(* outcome is the environment's choice.                                    *)
(***************************************************************************)
buttonTexts == <<"Filtrar", "Gerar", "Buscar", "Pesquisar", "Aplicar filtros">>

\* The pages the run may find at selection time: the list of their tables.
PagePool ==
    { <<>>,
      << Table([readable |-> TRUE, innerText |-> <<"F", "o", "o">>], HtmlNoCells) >>,
      << Table([readable |-> FALSE, innerText |-> <<>>], HtmlOneRow) >>,
      << Table([readable |-> TRUE, innerText |-> <<"F", "o", "o">>], HtmlOneRow),
         Table([readable |-> TRUE, innerText |-> <<"P", "A", "P", "E", "L">>], HtmlTwoRows) >> }

RunIdle ==
    /\ pc = "idle" /\ browser = "none" /\ closeCalls = 0 /\ labelIdx = 1
    /\ tried = <<>> /\ located = <<>> /\ clicked = <<>> /\ clickAttempts = 0
    /\ timedOut = {} /\ failure = "none" /\ candidates = <<>> /\ selected = "no"
    /\ tableHtml = NullHtml /\ tableArray = <<>> /\ parsed = FALSE
    /\ tabFound = FALSE /\ published = <<>> /\ exitCode = 0

\* process.exit(code).
Exit(code) == pc' = "exited" /\ exitCode' = code

\* A rejection inside the try block of lines 116-162 reaches the catch of line 162.
Throw(step) == pc' = "catch" /\ failure' = step

\* Lines 24-27: the configuration is checked before anything else.
CheckConfig ==
    /\ pc = "start"
    /\ \/ pc' = "launch" /\ UNCHANGED exitCode
       \/ Exit(1)
    /\ UNCHANGED <<browser, closeCalls, labelIdx, tried, located, clicked,
                   clickAttempts, timedOut, failure, candidates, selected,
                   tableHtml, tableArray, parsed, tabFound, published>>
    /\ UNCHANGED <<normVars, parseVars, selectVars>>

\* Lines 111-114: chromium.launch, awaited before the try block is entered. Its
\* rejection rejects the promise of the async function, which nothing handles.
Launch ==
    /\ pc = "launch"
    /\ \/ browser' = "open" /\ pc' = "newContext" /\ UNCHANGED failure
       \/ pc' = "crashed" /\ failure' = "launch" /\ UNCHANGED browser
    /\ UNCHANGED <<closeCalls, labelIdx, tried, located, clicked, clickAttempts,
                   timedOut, candidates, selected, tableHtml, tableArray, parsed,
                   tabFound, published, exitCode>>
    /\ UNCHANGED <<normVars, parseVars, selectVars>>

\* Lines 117-119: browser.newContext.
NewContext ==
    /\ pc = "newContext"
    /\ \/ pc' = "newPage" /\ UNCHANGED failure
       \/ Throw("newContext")
    /\ UNCHANGED <<browser, closeCalls, labelIdx, tried, located, clicked,
                   clickAttempts, timedOut, candidates, selected, tableHtml,
                   tableArray, parsed, tabFound, published, exitCode>>
    /\ UNCHANGED <<normVars, parseVars, selectVars>>

\* Line 120: context.newPage.
NewPage ==
    /\ pc = "newPage"
    /\ \/ pc' = "goto" /\ UNCHANGED failure
       \/ Throw("newPage")
    /\ UNCHANGED <<browser, closeCalls, labelIdx, tried, located, clicked,
                   clickAttempts, timedOut, candidates, selected, tableHtml,
                   tableArray, parsed, tabFound, published, exitCode>>
    /\ UNCHANGED <<normVars, parseVars, selectVars>>

\* Line 123: page.goto with a 30 s timeout, not wrapped: its timeout is a
\* rejection like any other.
Goto ==
    /\ pc = "goto"
    /\ \/ pc' = "findButton" /\ UNCHANGED <<failure, timedOut>>
       \/ Throw("goto") /\ timedOut' = timedOut \cup {"goto"}
       \/ Throw("goto") /\ UNCHANGED timedOut
    /\ UNCHANGED <<browser, closeCalls, labelIdx, tried, located, clicked,
                   clickAttempts, candidates, selected, tableHtml, tableArray,
                   parsed, tabFound, published, exitCode>>
    /\ UNCHANGED <<normVars, parseVars, selectVars>>

\* The loop goes on to the next label, or ends when there is none.
NextLabel ==
    IF labelIdx < Len(buttonTexts)
    THEN labelIdx' = labelIdx + 1 /\ pc' = "findButton"
    ELSE UNCHANGED labelIdx /\ pc' = "waitIdle"

\* Lines 127-130 and 135: page.$ for the current label. A rejection is caught
\* by the try of the loop body and the loop goes on.
FindButton ==
    /\ pc = "findButton"
    /\ tried' = Append(tried, buttonTexts[labelIdx])
    /\ \/ /\ located' = Append(located, buttonTexts[labelIdx])
          /\ pc' = "click"
          /\ UNCHANGED labelIdx
       \/ NextLabel /\ UNCHANGED located
    /\ UNCHANGED <<browser, closeCalls, clicked, clickAttempts, timedOut, failure,
                   candidates, selected, tableHtml, tableArray, parsed, tabFound,
                   published, exitCode>>
    /\ UNCHANGED <<normVars, parseVars, selectVars>>

\* A mutated click: a rejected click lets the loop try the next label.
ClickThenNextLabel ==
    /\ pc = "click"
    /\ clickAttempts' = clickAttempts + 1
    /\ \/ clicked' = Append(clicked, buttonTexts[labelIdx])
          /\ pc' = "postClickIdle" /\ UNCHANGED labelIdx
       \/ UNCHANGED clicked /\ NextLabel
    /\ UNCHANGED <<browser, closeCalls, tried, located, timedOut, failure,
                   candidates, selected, tableHtml, tableArray, parsed, tabFound,
                   published, exitCode>>
    /\ UNCHANGED <<normVars, parseVars, selectVars>>

\* Line 131: btn.click().catch(()=>{}): a rejection is swallowed.
Click ==
    /\ pc = "click"
    /\ clickAttempts' = clickAttempts + 1
    /\ \/ clicked' = Append(clicked, buttonTexts[labelIdx])
       \/ UNCHANGED clicked
    /\ pc' = "postClickIdle"
    /\ UNCHANGED <<browser, closeCalls, labelIdx, tried, located, timedOut,
                   failure, candidates, selected, tableHtml, tableArray, parsed,
                   tabFound, published, exitCode>>
    /\ UNCHANGED <<normVars, parseVars, selectVars>>

\* Lines 132-133: the wait after the click, its rejection swallowed; then break.
PostClickIdle ==
    /\ pc = "postClickIdle"
    /\ \/ UNCHANGED timedOut
       \/ timedOut' = timedOut \cup {"postClickIdle"}
    /\ pc' = "waitIdle"
    /\ UNCHANGED <<browser, closeCalls, labelIdx, tried, located, clicked,
                   clickAttempts, failure, candidates, selected, tableHtml,
                   tableArray, parsed, tabFound, published, exitCode>>
    /\ UNCHANGED <<normVars, parseVars, selectVars>>

\* Lines 31-33: extractTableFromPage waits for the network to be idle.
WaitIdle ==
    /\ pc = "waitIdle"
    /\ \/ UNCHANGED timedOut
       \/ timedOut' = timedOut \cup {"networkidle"}
    /\ pc' = "waitTable"
    /\ UNCHANGED <<browser, closeCalls, labelIdx, tried, located, clicked,
                   clickAttempts, failure, candidates, selected, tableHtml,
                   tableArray, parsed, tabFound, published, exitCode>>
    /\ UNCHANGED <<normVars, parseVars, selectVars>>

\* A mutated wait: the timeout of waitForSelector is not caught.
WaitTableUncaught ==
    /\ pc = "waitTable"
    /\ \/ pc' = "select" /\ UNCHANGED <<timedOut, failure>>
       \/ timedOut' = timedOut \cup {"waitForSelector"} /\ Throw("waitForSelector")
    /\ UNCHANGED <<browser, closeCalls, labelIdx, tried, located, clicked,
                   clickAttempts, candidates, selected, tableHtml, tableArray,
                   parsed, tabFound, published, exitCode>>
    /\ UNCHANGED <<normVars, parseVars, selectVars>>

\* Lines 36-38: extractTableFromPage waits for a table element.
WaitTable ==
    /\ pc = "waitTable"
    /\ \/ UNCHANGED timedOut
       \/ timedOut' = timedOut \cup {"waitForSelector"}
    /\ pc' = "select"
    /\ UNCHANGED failure
    /\ UNCHANGED <<browser, closeCalls, labelIdx, tried, located, clicked,
                   clickAttempts, candidates, selected, tableHtml, tableArray,
                   parsed, tabFound, published, exitCode>>
    /\ UNCHANGED <<normVars, parseVars, selectVars>>

\* Lines 41-54 and 138: page.$$eval runs the selector on the page's tables,
\* or rejects.
Select ==
    /\ pc = "select"
    /\ \/ \E ts \in PagePool :
             /\ candidates' = ts
             /\ tableHtml' = TableSelector(ts)
             /\ selected' = "returned"
             /\ pc' = "check"
             /\ UNCHANGED failure
       \/ /\ selected' = "threw"
          /\ Throw("$$eval")
          /\ UNCHANGED <<candidates, tableHtml>>
    /\ UNCHANGED <<browser, closeCalls, labelIdx, tried, located, clicked,
                   clickAttempts, timedOut, tableArray, parsed, tabFound,
                   published, exitCode>>
    /\ UNCHANGED <<normVars, parseVars, selectVars>>

\* !tableHtml: null and '' are falsy.
Falsy(h) == h.kind = "null" \/ h.html = <<>>

\* Line 139: if (!tableHtml).
CheckTable ==
    /\ pc = "check"
    /\ pc' = IF Falsy(tableHtml) THEN "content" ELSE "parse"
    /\ UNCHANGED <<browser, closeCalls, labelIdx, tried, located, clicked,
                   clickAttempts, timedOut, failure, candidates, selected,
                   tableHtml, tableArray, parsed, tabFound, published, exitCode>>
    /\ UNCHANGED <<normVars, parseVars, selectVars>>

\* Lines 140-145: page.content() for the diagnostic, then process.exit(2).
PageContent ==
    /\ pc = "content"
    /\ \/ Exit(2) /\ UNCHANGED failure
       \/ Throw("content") /\ UNCHANGED exitCode
    /\ UNCHANGED <<browser, closeCalls, labelIdx, tried, located, clicked,
                   clickAttempts, timedOut, candidates, selected, tableHtml,
                   tableArray, parsed, tabFound, published>>
    /\ UNCHANGED <<normVars, parseVars, selectVars>>

\* A mutated check: a table without rows is reported as no table (exit 2).
ParseExitsAsNotFound ==
    /\ pc = "parse"
    /\ tableArray' = parseTableHtmlToArray(tableHtml)
    /\ parsed' = TRUE
    /\ IF Len(parseTableHtmlToArray(tableHtml)) = 0
       THEN Exit(2)
       ELSE pc' = "sheetAuth" /\ UNCHANGED exitCode
    /\ UNCHANGED <<browser, closeCalls, labelIdx, tried, located, clicked,
                   clickAttempts, timedOut, failure, candidates, selected,
                   tableHtml, tabFound, published>>
    /\ UNCHANGED <<normVars, parseVars, selectVars>>

\* Lines 148-154: the table is parsed; no row is process.exit(3).
Parse ==
    /\ pc = "parse"
    /\ tableArray' = parseTableHtmlToArray(tableHtml)
    /\ parsed' = TRUE
    /\ IF Len(parseTableHtmlToArray(tableHtml)) = 0
       THEN Exit(3)
       ELSE pc' = "sheetAuth" /\ UNCHANGED exitCode
    /\ UNCHANGED <<browser, closeCalls, labelIdx, tried, located, clicked,
                   clickAttempts, timedOut, failure, candidates, selected,
                   tableHtml, tabFound, published>>
    /\ UNCHANGED <<normVars, parseVars, selectVars>>

\* Lines 79-85: writeToGoogleSheet parses the credentials and gets a client.
SheetAuth ==
    /\ pc = "sheetAuth"
    /\ \/ pc' = "sheetGet" /\ UNCHANGED failure
       \/ Throw("auth")
    /\ UNCHANGED <<browser, closeCalls, labelIdx, tried, located, clicked,
                   clickAttempts, timedOut, candidates, selected, tableHtml,
                   tableArray, parsed, tabFound, published, exitCode>>
    /\ UNCHANGED <<normVars, parseVars, selectVars>>

\* Lines 88-91: the spreadsheet's tabs are read and SHEET_TAB looked up.
SheetGet ==
    /\ pc = "sheetGet"
    /\ \/ tabFound' = TRUE /\ pc' = "sheetUpdate" /\ UNCHANGED failure
       \/ tabFound' = FALSE /\ pc' = "sheetAddTab" /\ UNCHANGED failure
       \/ Throw("spreadsheets.get") /\ UNCHANGED tabFound
    /\ UNCHANGED <<browser, closeCalls, labelIdx, tried, located, clicked,
                   clickAttempts, timedOut, candidates, selected, tableHtml,
                   tableArray, parsed, published, exitCode>>
    /\ UNCHANGED <<normVars, parseVars, selectVars>>

\* Lines 92-97: the tab is created when it was not found.
SheetAddTab ==
    /\ pc = "sheetAddTab"
    /\ \/ pc' = "sheetUpdate" /\ UNCHANGED failure
       \/ Throw("batchUpdate")
    /\ UNCHANGED <<browser, closeCalls, labelIdx, tried, located, clicked,
                   clickAttempts, timedOut, candidates, selected, tableHtml,
                   tableArray, parsed, tabFound, published, exitCode>>
    /\ UNCHANGED <<normVars, parseVars, selectVars>>

\* A mutated write: the header row is not sent.
SheetUpdateWithoutHeader ==
    /\ pc = "sheetUpdate"
    /\ published' = Append(published, Tail(tableArray))
    /\ \/ pc' = "close" /\ UNCHANGED failure
       \/ Throw("values.update")
    /\ UNCHANGED <<browser, closeCalls, labelIdx, tried, located, clicked,
                   clickAttempts, timedOut, candidates, selected, tableHtml,
                   tableArray, parsed, tabFound, exitCode>>
    /\ UNCHANGED <<normVars, parseVars, selectVars>>

\* Lines 101-106 and 157: values.update is called with the parsed array.
SheetUpdate ==
    /\ pc = "sheetUpdate"
    /\ published' = Append(published, tableArray)
    /\ \/ pc' = "close" /\ UNCHANGED failure
       \/ Throw("values.update")
    /\ UNCHANGED <<browser, closeCalls, labelIdx, tried, located, clicked,
                   clickAttempts, timedOut, candidates, selected, tableHtml,
                   tableArray, parsed, tabFound, exitCode>>
    /\ UNCHANGED <<normVars, parseVars, selectVars>>

\* Lines 160-161: browser.close(), then process.exit(0).
Close ==
    /\ pc = "close"
    /\ closeCalls' = closeCalls + 1
    /\ \/ browser' = "closed" /\ Exit(0) /\ UNCHANGED failure
       \/ Throw("close") /\ UNCHANGED <<browser, exitCode>>
    /\ UNCHANGED <<labelIdx, tried, located, clicked, clickAttempts, timedOut,
                   candidates, selected, tableHtml, tableArray, parsed, tabFound,
                   published>>
    /\ UNCHANGED <<normVars, parseVars, selectVars>>

\* Lines 162-166: the catch block closes the browser, a rejection of close()
\* swallowed, then process.exit(4).
Catch ==
    /\ pc = "catch"
    /\ closeCalls' = closeCalls + 1
    /\ \/ browser' = "closed"
       \/ UNCHANGED browser
    /\ Exit(4)
    /\ UNCHANGED <<labelIdx, tried, located, clicked, clickAttempts, timedOut,
                   failure, candidates, selected, tableHtml, tableArray, parsed,
                   tabFound, published>>
    /\ UNCHANGED <<normVars, parseVars, selectVars>>

(***************************************************************************)
(* Specifications.                                                         *)
(***************************************************************************)
Init ==
    /\ NormIdle /\ ParseIdle /\ SelectIdle
    /\ pc = "start" /\ browser = "none" /\ closeCalls = 0 /\ labelIdx = 1
    /\ tried = <<>> /\ located = <<>> /\ clicked = <<>> /\ clickAttempts = 0
    /\ timedOut = {} /\ failure = "none" /\ candidates = <<>> /\ selected = "no"
    /\ tableHtml = NullHtml /\ tableArray = <<>> /\ parsed = FALSE
    /\ tabFound = FALSE /\ published = <<>> /\ exitCode = 0

Next ==
    \/ CheckConfig \/ Launch \/ NewContext \/ NewPage \/ Goto
    \/ FindButton \/ Click \/ PostClickIdle
    \/ WaitIdle \/ WaitTable \/ Select \/ CheckTable \/ PageContent \/ Parse
    \/ SheetAuth \/ SheetGet \/ SheetAddTab \/ SheetUpdate \/ Close \/ Catch

Spec == Init /\ [][Next]_vars

InitNorm ==
    /\ nphase = "input"
    /\ inner \in SeqsUpTo(InnerChars, MaxInnerLen)
    /\ normOut = <<>>
    /\ ParseIdle /\ SelectIdle /\ RunIdle

SpecNorm == InitNorm /\ [][NormalizeCell]_vars

InitParse ==
    /\ pphase = "build" /\ tbl = <<>> /\ tableHtmlP = NullHtml /\ rowsP = <<>>
    /\ NormIdle /\ SelectIdle /\ RunIdle

NextParse == AddRow \/ AddCell \/ ParseTable \/ ParseNothing

SpecParse == InitParse /\ [][NextParse]_vars

InitSelect ==
    /\ sphase = "input"
    /\ tables \in SeqsUpTo(CandidatePool, MaxTables)
    /\ selOut = NullHtml
    /\ NormIdle /\ ParseIdle /\ RunIdle

SpecSelect == InitSelect /\ [][SelectTable]_vars

(***************************************************************************)
(* Properties of the run (Spec).                                           *)
(***************************************************************************)
Ended == pc \in {"exited", "crashed"}

\* The waits whose rejection the code catches on the spot.
ToleratedWaits == {"postClickIdle", "networkidle", "waitForSelector"}

\* The for loop of lines 127-136 has been left.
LoopDone == tried # <<>> /\ pc \notin {"findButton", "click", "postClickIdle"}

\* C1: on every exit path of a run that launched the browser, browser.close()
\* has been called before process.exit.
C1_ClosedBeforeEveryExit ==
    (pc = "exited" /\ browser # "none") => closeCalls > 0

\* C2, as stated: a timeout of any bounded wait, the navigation's included, is
\* never a failure: the selector is still invoked and the run does not end
\* with exit 4 when nothing but timeouts happened.
C2_NoTimeoutIsFailure ==
    (Ended /\ timedOut # {} /\ (failure = "none" \/ failure \in timedOut))
        => (selected # "no" /\ ~(pc = "exited" /\ exitCode = 4))

\* C2, amended: a timeout of the post-click wait, the network-idle wait or the
\* wait for a table element is never a failure: the run goes on, the selector
\* is invoked, and an exit 4 of such a run comes from the rejection of another
\* step. A timeout of the navigation (page.goto) ends the run with exit 4
\* before the selector is invoked.
C2_ToleratedTimeoutsContinue ==
    Ended =>
        /\ (timedOut \cap ToleratedWaits # {}) =>
              /\ pc = "exited"
              /\ selected # "no"
              /\ failure \notin ToleratedWaits
              /\ (exitCode = 4 => failure # "none")
              /\ (failure = "none" => selected = "returned" /\ exitCode \in {0, 2, 3})
        /\ ("goto" \in timedOut) =>
              pc = "exited" /\ exitCode = 4 /\ selected = "no" /\ failure = "goto"

C2_Witness ==
    pc = "exited" /\ exitCode = 0 /\ timedOut = ToleratedWaits

\* C4, as stated: the run ends with exit 2 exactly when the candidate set was
\* empty at selection time, and with exit 3 exactly when the selector returned
\* markup from which the parser got no row.
C4_ExitSignalsIff ==
    Ended =>
        /\ (pc = "exited" /\ exitCode = 2) <=> (selected = "returned" /\ candidates = <<>>)
        /\ (pc = "exited" /\ exitCode = 3) <=>
              (/\ selected = "returned" /\ candidates # <<>>
               /\ Len(parseTableHtmlToArray(TableSelector(candidates))) = 0)

\* C4, amended: the run ends with exit 2 exactly when the candidate set was
\* empty at selection time and the read of the page's content for the
\* diagnostic did not fail (when it fails, the run ends with exit 4); it ends
\* with exit 3 exactly when the selector returned markup from which the parser
\* got no row. The codes 0, 2, 3 and 4 are four different signals.
C4_ExitSignalsUnlessContentFails ==
    Ended =>
        /\ (pc = "exited" /\ exitCode = 2) <=>
              (selected = "returned" /\ candidates = <<>> /\ failure # "content")
        /\ (selected = "returned" /\ candidates = <<>> /\ failure = "content")
              => (pc = "exited" /\ exitCode = 4)
        /\ (pc = "exited" /\ exitCode = 3) <=>
              (/\ selected = "returned" /\ candidates # <<>>
               /\ Len(parseTableHtmlToArray(TableSelector(candidates))) = 0)
        /\ (pc = "exited" /\ exitCode = 0) =>
              (/\ selected = "returned" /\ candidates # <<>> /\ failure = "none"
               /\ Len(parseTableHtmlToArray(TableSelector(candidates))) > 0)
        /\ (pc = "exited" /\ exitCode = 4) => failure # "none"

C4_Witness ==
    /\ pc = "exited" /\ exitCode = 3
    /\ Len(candidates) = 1 /\ tableHtml = Html(HtmlNoCells) /\ parsed

\* The steps of the run before values.update is called.
PrePublishSteps ==
    {"launch", "newContext", "newPage", "goto", "$$eval", "content", "auth",
     "spreadsheets.get", "batchUpdate"}

\* C5: values.update is called at most once per run, only after a table was
\* found and at least one row parsed, with exactly the array the parser
\* returns for the selected table; never on the exit 2 and exit 3 paths nor
\* when a step before it failed.
C5_PublishOnceExactArray ==
    /\ Len(published) <= 1
    /\ published # <<>> =>
          /\ selected = "returned"
          /\ candidates # <<>>
          /\ ~Falsy(TableSelector(candidates))
          /\ published[1] = parseTableHtmlToArray(TableSelector(candidates))
          /\ Len(published[1]) > 0
    /\ (pc = "exited" /\ exitCode \in {1, 2, 3}) => published = <<>>
    /\ failure \in PrePublishSteps => published = <<>>

C5_Witness ==
    /\ pc = "exited" /\ exitCode = 0
    /\ published = << << << <<"a", " ", "B">>, <<>> >>, << <<"a">> >> >> >>

\* C8: a rejection of any collaborator call, browser launch included, is caught
\* by the outer catch and ends the run with exit 4 after browser.close() was
\* tried.
C8_EveryFailureExitsFour ==
    (Ended /\ failure # "none") => (pc = "exited" /\ exitCode = 4 /\ closeCalls > 0)

\* s is the beginning of t.
IsPrefix(s, t) == Len(s) <= Len(t) /\ \A k \in 1..Len(s) : s[k] = t[k]

\* C9, as stated: the labels are tried in list order; the loop stops exactly at
\* the first label whose control is located and whose activation succeeds, so
\* it does not stop before a successful activation while labels remain.
C9_StopsAtSuccessfulActivation ==
    /\ IsPrefix(tried, buttonTexts)
    /\ Len(clicked) <= 1
    /\ clicked # <<>> => tried[Len(tried)] = clicked[1]
    /\ (LoopDone /\ Len(tried) < Len(buttonTexts)) => clicked # <<>>

\* C9, amended: the labels are tried in list order; the loop stops exactly at
\* the first label whose control is located, whether its activation succeeds
\* or fails: no later label is tried after a located control, at most one
\* activation is attempted (so at most one succeeds), and the loop does not
\* stop before a control is located while labels remain.
C9_StopsAtFirstLocatedControl ==
    /\ IsPrefix(tried, buttonTexts)
    /\ Len(located) <= 1
    /\ located # <<>> => tried[Len(tried)] = located[1]
    /\ clickAttempts <= Len(located)
    /\ IsPrefix(clicked, located)
    /\ (LoopDone /\ Len(tried) < Len(buttonTexts)) => located # <<>>
    /\ (LoopDone /\ located # <<>>) => clickAttempts = 1

C9_Witness ==
    /\ LoopDone
    /\ tried = <<"Filtrar", "Gerar">> /\ located = <<"Gerar">> /\ clicked = <<>>

(***************************************************************************)
(* Properties of the Table Selector (SpecSelect).                          *)
(***************************************************************************)
\* The text holds the marker in any mix of cases.
HoldsMarker(text) ==
    \E j \in 1..Len(text) :
        /\ j + 4 <= Len(text)
        /\ text[j] \in {"p", "P"}
        /\ text[j + 1] \in {"a", "A"}
        /\ text[j + 2] \in {"p", "P"}
        /\ text[j + 3] \in {"e", "E"}
        /\ text[j + 4] \in {"l", "L"}

\* C3: the selector returns the outer markup of the first candidate whose
\* readable text holds 'papel' in any case; without one, the first candidate's;
\* for an empty list, null. An unreadable candidate is a non-match.
C3_SelectorContract ==
    sphase = "done" =>
        LET hits == {i \in 1..Len(tables) :
                        tables[i].readable /\ HoldsMarker(tables[i].innerText)}
        IN  selOut = IF hits # {}
                     THEN [kind |-> "html", html |-> tables[MinOf(hits)].outerHTML]
                     ELSE IF Len(tables) > 0
                          THEN [kind |-> "html", html |-> tables[1].outerHTML]
                          ELSE [kind |-> "null", html |-> <<>>]

C3_Witness ==
    /\ sphase = "done"
    /\ Len(tables) = 3
    /\ ~tables[1].readable
    /\ tables[2].readable /\ ~HoldsMarker(tables[2].innerText)
    /\ tables[3].innerText = <<"P", "a", "p", "e", "l", " ", "a">>
    /\ tables[3].outerHTML # tables[1].outerHTML
    /\ selOut.html = tables[3].outerHTML

(***************************************************************************)
(* Properties of the Table Parser (SpecParse).                             *)
(***************************************************************************)
HasCell(r) == Len(r) > 0

\* The rows a reader of the table sees: the rows that have a cell, each the
\* texts of its cells.
ExpectedRows(t) ==
    LET kept == SelectSeq(t, HasCell)
    IN  [r \in 1..Len(kept) |-> [k \in 1..Len(kept[r]) |-> kept[r][k].text]]

\* C6: for well-formed markup of one table the parser returns one row per row
\* segment that has a cell, in document order, each holding one normalized
\* string per cell in document order, the empty string included; null and
\* empty input give no row.
C6_RowsAndCellsInOrder ==
    /\ pphase = "parsed" => rowsP = ExpectedRows(tbl)
    /\ pphase = "nothing" => rowsP = <<>>

C6_Witness ==
    /\ pphase = "parsed"
    /\ tbl = << <<>>, <<CellAB, CellE>> >>
    /\ rowsP = << << <<"a", " ", "B">>, <<>> >> >>

(***************************************************************************)
(* Properties of the Markup Normalizer (SpecNorm).                         *)
(***************************************************************************)
\* C7: the normalizer's output holds no '<', no '>', no two white space
\* characters in a row and no white space at either end.
C7_NoMarkupNoSpaceRuns ==
    nphase = "done" =>
        /\ \A k \in 1..Len(normOut) : normOut[k] \notin {"<", ">"}
        /\ \A k \in 1..Len(normOut) - 1 : ~(IsSpace(normOut[k]) /\ IsSpace(normOut[k + 1]))
        /\ normOut # <<>> => ~IsSpace(normOut[1]) /\ ~IsSpace(normOut[Len(normOut)])

\* Position p of s lies in a tag-delimited substring: a '<' at or before p with
\* no '>' between it and p, and a '>' at or after p.
InTag(s, p) ==
    \E i \in 1..p :
        /\ s[i] = "<"
        /\ \A k \in i..(p - 1) : s[k] # ">"
        /\ \E j \in p..Len(s) : s[j] = ">"

\* The characters of s outside tags and white space, from the positions P on,
\* with one space between two of them that have a separator between them:
\* white space outside a tag, or, when tagSeparates, a tag.
RECURSIVE JoinText(_, _, _, _)
JoinText(s, P, prev, tagSeparates) ==
    IF P = {} THEN <<>>
    ELSE LET q == MinOf(P)
             gap == \E r \in (prev + 1)..(q - 1) :
                       \/ ~InTag(s, r) /\ IsSpace(s[r])
                       \/ tagSeparates /\ InTag(s, r)
         IN  (IF prev # 0 /\ gap THEN <<" ">> ELSE <<>>)
             \o <<s[q]>> \o JoinText(s, P \ {q}, q, tagSeparates)

Reference(s, tagSeparates) ==
    JoinText(s, {p \in 1..Len(s) : ~InTag(s, p) /\ ~IsSpace(s[p])}, 0, tagSeparates)

\* C10, as stated: the output is the fragment with every tag deleted and
\* nothing put in its place, white space runs then collapsed and the ends
\* trimmed.
C10_TagsDeletedWithoutSpace ==
    nphase = "done" => normOut = Reference(inner, FALSE)

\* C10, amended: the output is the fragment with every tag-delimited substring
\* ('<' through the next '>') replaced by one space, white space runs then
\* collapsed and the ends trimmed; text on both sides of an inline tag is
\* separated by one space ('A<b>B</b>' normalizes to 'A B').
C10_TagsBecomeOneSpace ==
    nphase = "done" => normOut = Reference(inner, TRUE)

C10_Witness ==
    /\ nphase = "done"
    /\ inner = <<"a", "<", ">", "a">>
    /\ normOut = <<"a", " ", "a">>

====
